---- MODULE Spec2Model ----
\* Checkout resolvers of store-graphql: the orderForm query (locale sync and
\* Set-Cookie sanitising), the skuPickupSLAs / skuPickupSLA queries and the
\* addItem mutation (marketing-data merge, add-item, assembly options).
EXTENDS FiniteSets, Integers, Sequences, TLC

\* ---------------------------------------------------------------- values
\* JavaScript scalars are strings; null and undefined are the two sentinels.
Null == "<null>"
Undef == "<undefined>"

\* Boolean(v) for a scalar.
Truthy(v) == v \notin {Undef, Null, ""}

\* The object {}.
EmptyObj == [k \in {} |-> Undef]

\* obj[k], undefined when obj has no key k.
Get(obj, k) == IF k \in DOMAIN obj THEN obj[k] ELSE Undef

\* obj with obj[k] = v assigned.
Put(obj, k, v) == [x \in DOMAIN obj \cup {k} |-> IF x = k THEN v ELSE obj[x]]

\* ---------------------------------------------------------------- bounds
MaxItems == 2
MaxCookies == 2
MaxSlas == 2

RECURSIVE SeqsUpTo(_, _)
\* The sequences over S of length at most n.
SeqsUpTo(S, n) ==
  IF n = 0 THEN {<<>>}
  ELSE LET shorter == SeqsUpTo(S, n - 1)
       IN  shorter \cup {Append(s, x) : s \in {t \in shorter : Len(t) = n - 1}, x \in S}

\* ------------------------------------------------- marketing data (pure)
UtmFields == {"utmCampaign", "utmMedium", "utmSource", "utmiCampaign", "utmiPart", "utmipage"}

\* ramda path([group, leaf], sessionData): undefined when a step is missing.
Path(group, leaf, sessionData) ==
  IF group \in DOMAIN sessionData /\ leaf \in DOMAIN sessionData[group]
  THEN sessionData[group][leaf]
  ELSE Undef

\* The session value that addItem writes to (and compares with) each stored field.
SessionValueFor(field, sessionData) ==
  CASE field = "utmCampaign" -> Path("utmParams", "campaign", sessionData)
    [] field = "utmMedium" -> Path("utmParams", "medium", sessionData)
    [] field = "utmSource" -> Path("utmParams", "source", sessionData)
    [] field = "utmiCampaign" -> Path("utmiParams", "campaign", sessionData)
    [] field = "utmiPart" -> Path("utmiParams", "part", sessionData)
    [] field = "utmipage" -> Path("utmiParams", "page", sessionData)

getSessionMarketingParams(sesionData) ==
  [utm_source |-> Path("utmParams", "source", sesionData),
   utm_campaign |-> Path("utmParams", "campaign", sesionData),
   utm_medium |-> Path("utmParams", "medium", sesionData),
   utmi_campaign |-> Path("utmiParams", "campaign", sesionData),
   utmi_part |-> Path("utmiParams", "part", sesionData),
   utmi_page |-> Path("utmiParams", "page", sesionData)]

\* A destructuring default (x = null): null replaces undefined only.
DefaultNull(obj, k) == IF Get(obj, k) = Undef THEN Null ELSE obj[k]

\* orderFormMarketingTags is the stored object, {} standing for null.
shouldUpdateMarketingData(orderFormMarketingTags, sessionData) ==
  LET utmCampaign == DefaultNull(orderFormMarketingTags, "utmCampaign")
      utmMedium == DefaultNull(orderFormMarketingTags, "utmMedium")
      utmSource == DefaultNull(orderFormMarketingTags, "utmSource")
      utmiCampaign == DefaultNull(orderFormMarketingTags, "utmiCampaign")
      utmiPart == DefaultNull(orderFormMarketingTags, "utmiPart")
      utmipage == DefaultNull(orderFormMarketingTags, "utmipage")
      params == getSessionMarketingParams(sessionData)
  IN  /\ \/ Truthy(params.utm_source)
         \/ Truthy(params.utm_campaign)
         \/ Truthy(params.utm_medium)
         \/ Truthy(params.utmi_campaign)
         \/ Truthy(params.utmi_part)
         \/ Truthy(params.utmi_page)
      /\ \/ utmCampaign # params.utm_campaign
         \/ utmMedium # params.utm_medium
         \/ utmSource # params.utm_source
         \/ utmiCampaign # params.utmi_campaign
         \/ utmiPart # params.utmi_part
         \/ utmipage # params.utmi_page

\* ------------------------------------------------------- cookies (pure)
\* A Set-Cookie line is a sequence of text chunks; its text is their
\* concatenation.  ";" is the one-character chunk, "=", "domain=" and "path=/"
\* are the chunks that hold an equals sign, no other chunk holds ";" or "=".
CHECKOUT_COOKIE == "CHECKOUT_COOKIE"
SetCookieWhitelist == {<<CHECKOUT_COOKIE>>, <<".ASPXAUTH">>}

HasEq(chunk) == chunk \in {"=", "domain=", "path=/"}
BeforeEq(chunk) ==
  CASE chunk = "=" -> <<>>
    [] chunk = "domain=" -> <<"domain">>
    [] chunk = "path=/" -> <<"path">>
AfterEq(chunk) == IF chunk = "path=/" THEN <<"/">> ELSE <<>>

\* The least index of the set S, 0 when S is empty (indexOf's "not found").
FirstOf(S) == IF S = {} THEN 0 ELSE CHOOSE i \in S : \A j \in S : i <= j

\* cookie.split('=')[0]
SplitEqFirst(cookie) ==
  LET i == FirstOf({n \in 1..Len(cookie) : HasEq(cookie[n])})
  IN  IF i = 0 THEN cookie ELSE SubSeq(cookie, 1, i - 1) \o BeforeEq(cookie[i])

\* A whitelist test on the start of the cookie name.
isWhitelistedSetCookie_prefix(cookie) ==
  Len(cookie) > 0 /\ <<Head(cookie)>> \in SetCookieWhitelist

isWhitelistedSetCookie(cookie) == SplitEqFirst(cookie) \in SetCookieWhitelist

\* cookie.replace(/domain=.+?(;|$)/, `domain=${host};`): the leftmost "domain="
\* that has a character after it; .+? takes that character and goes on to the
\* first ";" after it, or to the end of the text.
replaceDomain(host, cookie) ==
  LET i == FirstOf({n \in 1..Len(cookie) : cookie[n] = "domain="})
  IN  IF i = 0 \/ i = Len(cookie) THEN cookie
      ELSE LET rest == SubSeq(cookie, i + 2, Len(cookie))
               k == FirstOf({n \in 1..Len(rest) : rest[n] = ";"})
               stop == IF k = 0 THEN Len(cookie) ELSE i + 1 + k
           IN  SubSeq(cookie, 1, i - 1) \o <<"domain=", host, ";">>
                 \o SubSeq(cookie, stop + 1, Len(cookie))

RECURSIVE SplitSemicolon(_)
\* text.split(';')
SplitSemicolon(s) ==
  LET k == FirstOf({n \in 1..Len(s) : s[n] = ";"})
  IN  IF k = 0 THEN <<s>>
      ELSE <<SubSeq(s, 1, k - 1)>> \o SplitSemicolon(SubSeq(s, k + 1, Len(s)))

\* The text after the first "=" of a name=value segment.
ValueOf(segment) ==
  LET i == FirstOf({n \in 1..Len(segment) : HasEq(segment[n])})
  IN  IF i = 0 THEN <<>> ELSE AfterEq(segment[i]) \o SubSeq(segment, i + 1, Len(segment))

IsDomainSegment(segment) == SplitEqFirst(segment) = <<"domain">>

\* utils parseCookie: the first segment is name=value, the attribute segments
\* become the options; domain is the value of the first domain attribute.
parseCookie(cookie) ==
  LET segments == SplitSemicolon(cookie)
      attrs == Tail(segments)
      d == FirstOf({n \in 1..Len(attrs) : IsDomainSegment(attrs[n])})
  IN  [name |-> SplitEqFirst(Head(segments)),
       value |-> ValueOf(Head(segments)),
       hasDomain |-> d # 0,
       domain |-> IF d = 0 THEN <<>> ELSE ValueOf(attrs[d])]

\* compose(parseCookie, replaceDomain(host))
parseAndClean(host, cookie) == parseCookie(replaceDomain(host, cookie))

\* map(parseAndClean, responseSetCookies.filter(isWhitelistedSetCookie))
cleanCookies(host, responseSetCookies) ==
  LET forwardedSetCookies == SelectSeq(responseSetCookies, isWhitelistedSetCookie)
  IN  [i \in 1..Len(forwardedSetCookies) |-> parseAndClean(host, forwardedSetCookies[i])]

\* ---------------------------------------------------------- SLAs (pure)
\* pathOr([], ['logisticsInfo', '0', 'slas'], simulation): logisticsInfo is a
\* list of entries, each entry's slas is a list or null.
FirstSlas(simulation) ==
  IF Len(simulation.logisticsInfo) = 0 THEN <<>>
  ELSE IF simulation.logisticsInfo[1].slasIsNull THEN <<>>
       ELSE simulation.logisticsInfo[1].slas

IsPickup(sla) == sla.deliveryChannel = "pickup-in-point"

\* No delivery-channel filter.
skuPickupSLAs_unfiltered(simulation) == FirstSlas(simulation)

skuPickupSLAs(simulation) == SelectSeq(FirstSlas(simulation), IsPickup)

\* slas.find(s => path([..., 'addressId'], s) === pickupId): the one-element
\* list of the SLA found, the empty list for undefined.
skuPickupSLA(simulation, pickupId) ==
  LET slas == skuPickupSLAs(simulation)
      i == FirstOf({n \in 1..Len(slas) : slas[n].addressId = pickupId})
  IN  IF i = 0 THEN <<>> ELSE <<slas[i]>>

\* ------------------------------------------------------------------ heap
\* Objects live in a heap (a sequence, the address is the index; address 0 is
\* null), so that a copy and an alias are different things.
EmptyMarketingData == [type |-> "marketingData", f |-> EmptyObj, tagsKind |-> "absent", tagsRef |-> 0]

\* The value a JSON serialisation of the marketing data at address a carries.
DeepMarketingData(h, a) ==
  IF a = 0 THEN [isNull |-> TRUE]
  ELSE [f |-> h[a].f,
        tagsKind |-> h[a].tagsKind,
        tags |-> IF h[a].tagsKind = "array" THEN h[h[a].tagsRef].items ELSE <<>>]

\* The scalar fields of `marketingData || {}`.
FieldsOrEmpty(h, a) == IF a = 0 THEN EmptyObj ELSE h[a].f

\* No copy: newMarketingData is the fetched object itself.
SpreadCopy_alias(h, a) ==
  IF a = 0 THEN [heap |-> Append(h, EmptyMarketingData), addr |-> Len(h) + 1]
  ELSE [heap |-> h, addr |-> a]

\* { ...(marketingData || {}) }: a new object holding the same fields (the
\* marketingTags array is shared with the original).
SpreadCopy(h, a) ==
  [heap |-> Append(h, IF a = 0 THEN EmptyMarketingData ELSE h[a]), addr |-> Len(h) + 1]

\* The six assignments newMarketingData.utmX = path([...], sessionData), made
\* when sessionData has at least one key.
AssignUtm(f, sessionData) ==
  IF Cardinality(DOMAIN sessionData) > 0
  THEN [k \in DOMAIN f \cup UtmFields |->
          IF k \in UtmFields THEN SessionValueFor(k, sessionData) ELSE f[k]]
  ELSE f

\* Tags sent as stored, falsy entries kept.
FilterTags_keepAll(tags) == tags

\* marketingTags.filter(Boolean)
FilterTags(tags) == SelectSeq(tags, Truthy)

\* The body of `if (shouldUpdateMarketingData(...))` up to the call: the heap
\* after it and the address of newMarketingData.
BuildNewMarketingData(h, a, sessionData) ==
  LET c == SpreadCopy(h, a)
      h1 == [c.heap EXCEPT ![c.addr].f = AssignUtm(@, sessionData)]
      kind == h1[c.addr].tagsKind
  IN  IF kind \in {"absent", "null"}
      THEN [heap |-> [h1 EXCEPT ![c.addr].tagsKind = "absent", ![c.addr].tagsRef = 0],
            addr |-> c.addr]
      ELSE [heap |-> [Append(h1, [type |-> "array",
                                  items |-> FilterTags(h1[h1[c.addr].tagsRef].items)])
                        EXCEPT ![c.addr].tagsRef = Len(h1) + 1],
            addr |-> c.addr]

\* ------------------------------------------------------------ input sets
AllUtm(v) == [k \in UtmFields |-> v]

\* Order-form marketing data the upstream may hold: null, or fields plus tags.
StoredMarketingData ==
  { [isNull |-> TRUE, f |-> EmptyObj, tagsKind |-> "absent", tags |-> <<>>],
    [isNull |-> FALSE, f |-> ("utmSource" :> "a"), tagsKind |-> "absent", tags |-> <<>>],
    [isNull |-> FALSE, f |-> ("utmSource" :> "b") @@ ("coupon" :> "cp"),
     tagsKind |-> "null", tags |-> <<>>],
    [isNull |-> FALSE, f |-> AllUtm("a") @@ ("coupon" :> "cp"),
     tagsKind |-> "array", tags |-> <<"t1", "", Null, "t2">>] }

\* Session objects the session service may answer with.
Sessions ==
  { EmptyObj,
    ("utmParams" :> ("source" :> "a")),
    ("utmParams" :> [k \in {"source", "campaign"} |-> IF k = "source" THEN "b" ELSE ""])
      @@ ("utmiParams" :> EmptyObj),
    ("utmParams" :> [k \in {"source", "campaign", "medium"} |-> "a"])
      @@ ("utmiParams" :> [k \in {"campaign", "part", "page"} |-> "a"]),
    ("isAuthenticated" :> ("value" :> "true")) }

ItemOptions == {Undef, Null, "[]", "[o1]"}
\* An OrderFormItemInput: options is absent, null, [] or a one-element list.
ItemInputs == [id : {"sku"}, options : ItemOptions]

\* orderFormId: omitted (undefined), null, the empty string or an id.
OrderFormIds == {Undef, Null, "", "of1"}
ItemLists ==
  {[is |-> k, list |-> <<>>] : k \in {Null, Undef}}
    \cup {[is |-> "list", list |-> l] : l \in SeqsUpTo(ItemInputs, MaxItems)}

\* ---------------------------------------------------------------- state
VARIABLES
  resolver,      \* the resolver this request runs
  pc,            \* where the resolver is
  args,          \* its arguments
  heap,          \* the objects of the request
  log,           \* upstream calls: issued, done, failed, thrown
  error,         \* what the resolver threw, "" for nothing
  ofP,           \* addItem: the promise of checkout.orderForm()
  sessP,         \* addItem: the promise of getSession(ctx)
  mdAddr,        \* addItem: address of the fetched marketingData, 0 for null
  mdSnap,        \* addItem: the fetched marketingData as it arrived
  shouldUpdate,  \* addItem: "unset", "yes" or "no"
  sent,          \* addItem: the marketing-data payload sent
  todo,          \* addItem: items with options still to attach
  result,        \* addItem: the response returned
  origAddr,      \* orderForm: address of the fetched order form
  origSnap,      \* orderForm: clientPreferencesData as it arrived
  setCookies,    \* orderForm: the upstream Set-Cookie lines
  cookiesSet,    \* orderForm: ctx.cookies.set calls, in order
  newCpd,        \* orderForm: address of newClientPreferencesData, 0 for none
  ofResult,      \* orderForm: address of the order form returned
  simulation,    \* SLA queries: the simulation answered
  slaResult      \* SLA queries: the value returned

vars == <<resolver, pc, args, heap, log, error, ofP, sessP, mdAddr, mdSnap, shouldUpdate,
          sent, todo, result, origAddr, origSnap, setCookies, cookiesSet, newCpd, ofResult,
          simulation, slaResult>>

addItemVars == <<ofP, sessP, mdAddr, mdSnap, shouldUpdate, sent, todo, result>>
orderFormVars == <<origAddr, origSnap, setCookies, cookiesSet, newCpd, ofResult>>
slaVars == <<simulation, slaResult>>

Ev(e, c) == [e |-> e, c |-> c]
NoResponse == [call |-> "", at |-> 0]
NoSimulation == [logisticsInfo |-> <<>>]

Init ==
  /\ resolver = "none"
  /\ pc = "idle"
  /\ args = EmptyObj
  /\ heap = <<>>
  /\ log = <<>>
  /\ error = ""
  /\ ofP = [st |-> "none"]
  /\ sessP = [st |-> "none", v |-> EmptyObj]
  /\ mdAddr = 0
  /\ mdSnap = [isNull |-> TRUE]
  /\ shouldUpdate = "unset"
  /\ sent = [done |-> FALSE]
  /\ todo = 0
  /\ result = NoResponse
  /\ origAddr = 0
  /\ origSnap = [isNull |-> TRUE]
  /\ setCookies = <<>>
  /\ cookiesSet = <<>>
  /\ newCpd = 0
  /\ ofResult = 0
  /\ simulation = NoSimulation
  /\ slaResult = [kind |-> "none"]

\* ------------------------------------------------------- mutations.addItem
\* A validation with strict equality: an omitted (undefined) argument passes.
InvalidAddItemArgs_strictNull(orderFormId, items) == orderFormId = Null \/ items.is = Null

\* orderFormId == null || items == null: loose equality, true of null and of
\* undefined, false of every other value ("" and [] included).
InvalidAddItemArgs(orderFormId, items) ==
  orderFormId \in {Null, Undef} \/ items.is \in {Null, Undef}

HasOptionsList(item) == item.options \in {"[]", "[o1]"}
\* A filter that keeps every item carrying an options list, empty or not.
WithOptions_anyList(items) == SelectSeq(items, HasOptionsList)

HasOptions(item) == item.options = "[o1]"
\* items.filter(({ options }) => !!options && options.length > 0)
WithOptions(items) == SelectSeq(items, HasOptions)

\* getSession: a synchronous throw of sessionQueries.getSession is caught and
\* answers {}; otherwise the promise it returned is returned as it is.
GetSessionCall(threw) ==
  IF threw THEN [st |-> "fulfilled", v |-> EmptyObj] ELSE [st |-> "pending", v |-> EmptyObj]

\* How the promise of getSession settles when the promise it returned does.
GetSessionSettle(ok, value) ==
  IF ok THEN [st |-> "fulfilled", v |-> value] ELSE [st |-> "rejected", v |-> EmptyObj]

\* A join that waits for the order form alone.
AllFulfilled_orderFormOnly(p1, p2) == p1.st = "fulfilled"

\* Promise.all([checkout.orderForm(), getSession(ctx)]) is fulfilled.
AllFulfilled(p1, p2) == p1.st = "fulfilled" /\ p2.st = "fulfilled"

\* The resolver is called: validation, then both fetches are issued.
AddItem(orderFormId, items, sessionThrows) ==
  /\ pc = "idle"
  /\ resolver' = "addItem"
  /\ args' = [orderFormId |-> orderFormId, items |-> items]
  /\ IF InvalidAddItemArgs(orderFormId, items)
     THEN /\ pc' = "threw"
          /\ error' = "UserInputError"
          /\ UNCHANGED <<log, ofP, sessP>>
     ELSE /\ pc' = "awaitAll"
          /\ ofP' = [st |-> "pending"]
          /\ sessP' = GetSessionCall(sessionThrows)
          /\ log' = <<Ev("issue", "orderForm"), Ev("issue", "getSession")>>
                      \o (IF sessionThrows THEN <<Ev("throw", "getSession")>> ELSE <<>>)
          /\ UNCHANGED error
  /\ UNCHANGED <<heap, mdAddr, mdSnap, shouldUpdate, sent, todo, result>>
  /\ UNCHANGED <<orderFormVars, slaVars>>

\* checkout.orderForm() settles: the snapshot lands in the heap, or the
\* rejection makes Promise.all reject.
SettleOrderForm(ok, md) ==
  /\ resolver = "addItem"
  /\ ofP.st = "pending"
  /\ IF ok
     THEN /\ ofP' = [st |-> "fulfilled"]
          /\ log' = Append(log, Ev("done", "orderForm"))
          /\ heap' = IF md.isNull THEN heap
                     ELSE IF md.tagsKind = "array"
                          THEN heap \o <<[type |-> "array", items |-> md.tags],
                                         [type |-> "marketingData", f |-> md.f,
                                          tagsKind |-> "array", tagsRef |-> Len(heap) + 1]>>
                          ELSE Append(heap, [type |-> "marketingData", f |-> md.f,
                                             tagsKind |-> md.tagsKind, tagsRef |-> 0])
          /\ mdAddr' = IF md.isNull THEN 0 ELSE Len(heap')
          /\ mdSnap' = DeepMarketingData(heap', mdAddr')
          /\ UNCHANGED <<pc, error>>
     ELSE /\ ofP' = [st |-> "rejected"]
          /\ log' = Append(log, Ev("fail", "orderForm"))
          /\ pc' = IF pc = "awaitAll" THEN "failed" ELSE pc
          /\ error' = IF pc = "awaitAll" THEN "orderForm" ELSE error
          /\ UNCHANGED <<heap, mdAddr, mdSnap>>
  /\ UNCHANGED <<resolver, args, sessP, shouldUpdate, sent, todo, result>>
  /\ UNCHANGED <<orderFormVars, slaVars>>

\* The promise sessionQueries.getSession returned settles.
SettleSession(ok, value) ==
  /\ resolver = "addItem"
  /\ sessP.st = "pending"
  /\ sessP' = GetSessionSettle(ok, value)
  /\ log' = Append(log, Ev(IF ok THEN "done" ELSE "fail", "getSession"))
  /\ pc' = IF sessP'.st = "rejected" /\ pc = "awaitAll" THEN "failed" ELSE pc
  /\ error' = IF sessP'.st = "rejected" /\ pc = "awaitAll" THEN "getSession" ELSE error
  /\ UNCHANGED <<resolver, args, heap, ofP, mdAddr, mdSnap, shouldUpdate, sent, todo, result>>
  /\ UNCHANGED <<orderFormVars, slaVars>>

\* After the await of Promise.all: the marketing-data decision, the payload
\* and the first write call.
ResumeAfterFetch ==
  /\ resolver = "addItem"
  /\ pc = "awaitAll"
  /\ AllFulfilled(ofP, sessP)
  /\ IF shouldUpdateMarketingData(FieldsOrEmpty(heap, mdAddr), sessP.v)
     THEN LET b == BuildNewMarketingData(heap, mdAddr, sessP.v)
          IN  /\ heap' = b.heap
              /\ shouldUpdate' = "yes"
              /\ sent' = [done |-> TRUE, body |-> DeepMarketingData(b.heap, b.addr)]
              /\ log' = Append(log, Ev("issue", "updateOrderFormMarketingData"))
              /\ pc' = "awaitUpdate"
     ELSE /\ shouldUpdate' = "no"
          /\ log' = Append(log, Ev("issue", "addItem"))
          /\ pc' = "awaitAddItem"
          /\ UNCHANGED <<heap, sent>>
  /\ UNCHANGED <<resolver, args, error, ofP, sessP, mdAddr, mdSnap, todo, result>>
  /\ UNCHANGED <<orderFormVars, slaVars>>

\* checkout.updateOrderFormMarketingData settles; then add-item is issued.
SettleUpdateMarketingData(ok) ==
  /\ resolver = "addItem"
  /\ pc = "awaitUpdate"
  /\ IF ok
     THEN /\ log' = log \o <<Ev("done", "updateOrderFormMarketingData"), Ev("issue", "addItem")>>
          /\ pc' = "awaitAddItem"
          /\ UNCHANGED error
     ELSE /\ log' = Append(log, Ev("fail", "updateOrderFormMarketingData"))
          /\ pc' = "failed"
          /\ error' = "updateOrderFormMarketingData"
  /\ UNCHANGED <<resolver, args, heap>>
  /\ UNCHANGED <<addItemVars, orderFormVars, slaVars>>

\* Index of the last "issue" of call c in the log l.
LastIssue(l, c) ==
  CHOOSE i \in 1..Len(l) :
    /\ l[i] = Ev("issue", c)
    /\ \A j \in (i + 1)..Len(l) : l[j] # Ev("issue", c)

\* attachmentsHelper addOptionsForItems: one attach-option call for each item
\* handed to it, each awaited before the next.
addOptionsForItems(items) == Len(items)

\* withOptions.length === 0 ? addItem : await checkout.orderForm()
ReturnsAddItemResponse(withOptions) == Len(withOptions) = 0

\* What follows `await addOptionsForItems(...)`: the add-item response is
\* returned, or the order form is fetched again.
AfterOptions(l) ==
  IF ReturnsAddItemResponse(WithOptions(args.items.list))
  THEN /\ log' = l
       /\ pc' = "returned"
       /\ result' = [call |-> "addItem", at |-> LastIssue(l, "addItem")]
  ELSE /\ log' = Append(l, Ev("issue", "orderForm"))
       /\ pc' = "awaitRefetch"
       /\ UNCHANGED result

\* checkout.addItem settles; then addOptionsForItems starts.
SettleAddItem(ok) ==
  /\ resolver = "addItem"
  /\ pc = "awaitAddItem"
  /\ IF ok
     THEN LET n == addOptionsForItems(WithOptions(args.items.list))
              l == Append(log, Ev("done", "addItem"))
          IN  IF n > 0
              THEN /\ log' = Append(l, Ev("issue", "addAssemblyOptions"))
                   /\ todo' = n - 1
                   /\ pc' = "awaitAttach"
                   /\ UNCHANGED <<result, error>>
              ELSE /\ AfterOptions(l)
                   /\ UNCHANGED <<todo, error>>
     ELSE /\ log' = Append(log, Ev("fail", "addItem"))
          /\ pc' = "failed"
          /\ error' = "addItem"
          /\ UNCHANGED <<todo, result>>
  /\ UNCHANGED <<resolver, args, heap, ofP, sessP, mdAddr, mdSnap, shouldUpdate, sent>>
  /\ UNCHANGED <<orderFormVars, slaVars>>

\* An attach-option call settles; the next one is issued, or the loop ends.
SettleAttach(ok) ==
  /\ resolver = "addItem"
  /\ pc = "awaitAttach"
  /\ IF ok
     THEN LET l == Append(log, Ev("done", "addAssemblyOptions"))
          IN  IF todo > 0
              THEN /\ log' = Append(l, Ev("issue", "addAssemblyOptions"))
                   /\ todo' = todo - 1
                   /\ UNCHANGED <<pc, result, error>>
              ELSE /\ AfterOptions(l)
                   /\ UNCHANGED <<todo, error>>
     ELSE /\ log' = Append(log, Ev("fail", "addAssemblyOptions"))
          /\ pc' = "failed"
          /\ error' = "addAssemblyOptions"
          /\ UNCHANGED <<todo, result>>
  /\ UNCHANGED <<resolver, args, heap, ofP, sessP, mdAddr, mdSnap, shouldUpdate, sent>>
  /\ UNCHANGED <<orderFormVars, slaVars>>

\* The second checkout.orderForm() settles and its answer is returned.
SettleRefetch(ok) ==
  /\ resolver = "addItem"
  /\ pc = "awaitRefetch"
  /\ IF ok
     THEN /\ log' = Append(log, Ev("done", "orderForm"))
          /\ pc' = "returned"
          /\ result' = [call |-> "orderForm", at |-> LastIssue(log, "orderForm")]
          /\ UNCHANGED error
     ELSE /\ log' = Append(log, Ev("fail", "orderForm"))
          /\ pc' = "failed"
          /\ error' = "orderForm"
          /\ UNCHANGED result
  /\ UNCHANGED <<resolver, args, heap, ofP, sessP, mdAddr, mdSnap, shouldUpdate, sent, todo>>
  /\ UNCHANGED <<orderFormVars, slaVars>>

\* ------------------------------------------------------- queries.orderForm
CultureInfos == {Undef, "en-US", "pt-BR"}
Hosts == {"store.example"}

\* clientPreferencesData the upstream order form may carry (null, or fields).
StoredClientPreferences ==
  { [isNull |-> TRUE, f |-> EmptyObj],
    [isNull |-> FALSE, f |-> ("locale" :> "en-US")],
    [isNull |-> FALSE, f |-> ("locale" :> "pt-BR") @@ ("optinNewsLetter" :> "true")],
    [isNull |-> FALSE, f |-> ("optinNewsLetter" :> "true")] }

\* Upstream Set-Cookie lines: a name, "=", a value, then attributes.
CookieNames == {<<CHECKOUT_COOKIE>>, <<".ASPXAUTH">>, <<"other">>, <<CHECKOUT_COOKIE, "2">>}
CookieAttributes ==
  { <<>>,
    <<";", "domain=", "upstream.example">>,
    <<";", "path=/">>,
    <<";", "domain=", "upstream.example", ";", "path=/">>,
    <<";", "path=/", ";", "domain=", "upstream.example">> }
SetCookieLines == {n \o <<"=", "v">> \o a : n \in CookieNames, a \in CookieAttributes}

\* The order form at address a, with its clientPreferencesData, by value.
DeepOrderForm(h, a) ==
  IF a = 0 THEN [isNull |-> TRUE]
  ELSE [cpdIsNull |-> h[a].cpd = 0,
        cpd |-> IF h[a].cpd = 0 THEN EmptyObj ELSE h[h[a].cpd].f]

\* The fields of `orderForm.clientPreferencesData || { locale: cultureInfo }`.
ClientPreferencesOrDefault(h, a, cultureInfo) ==
  IF h[a].cpd = 0 THEN ("locale" :> cultureInfo) ELSE h[h[a].cpd].f

shouldUpdateClientPreferencesData(cultureInfo, clientPreferencesData) ==
  /\ Truthy(cultureInfo)
  /\ Truthy(Get(clientPreferencesData, "locale"))
  /\ cultureInfo # clientPreferencesData["locale"]

\* newClientPreferencesData = { ...clientPreferencesData } with locale set: the
\* heap after it and the address of the new object.
BuildNewClientPreferences(h, a, cultureInfo) ==
  [heap |-> Append(h, [type |-> "clientPreferencesData",
                       f |-> Put(ClientPreferencesOrDefault(h, a, cultureInfo),
                                 "locale", cultureInfo)]),
   addr |-> Len(h) + 1]

\* No catch: the failure of the update call leaves syncWithStoreLocale.
SyncOutcome_uncaught(ok, orderForm, updated) ==
  IF ok THEN [threw |-> FALSE, v |-> updated] ELSE [threw |-> TRUE, v |-> 0]

\* The try / catch around the update call: its answer, or on failure the order
\* form syncWithStoreLocale was given.
SyncOutcome(ok, orderForm, updated) ==
  IF ok THEN [threw |-> FALSE, v |-> updated] ELSE [threw |-> FALSE, v |-> orderForm]

\* The resolver is called and issues checkout.orderFormRaw().
OrderFormQuery(cultureInfo, host) ==
  /\ pc = "idle"
  /\ resolver' = "orderForm"
  /\ args' = [cultureInfo |-> cultureInfo, host |-> host]
  /\ log' = <<Ev("issue", "orderFormRaw")>>
  /\ pc' = "awaitRaw"
  /\ UNCHANGED <<heap, error>>
  /\ UNCHANGED <<addItemVars, orderFormVars, slaVars>>

\* The tail of the resolver: the whitelisted cookies are set, the order form
\* is returned.
FinishOrderForm(cookies, addr) ==
  /\ cookiesSet' = cleanCookies(args.host, cookies)
  /\ ofResult' = addr
  /\ pc' = "returned"

\* orderFormRaw settles; syncWithStoreLocale runs up to its update call.
SettleOrderFormRaw(ok, cpd, cookies) ==
  /\ resolver = "orderForm"
  /\ pc = "awaitRaw"
  /\ IF ok
     THEN LET h1 == IF cpd.isNull
                    THEN Append(heap, [type |-> "orderForm", cpd |-> 0])
                    ELSE heap \o <<[type |-> "clientPreferencesData", f |-> cpd.f],
                                   [type |-> "orderForm", cpd |-> Len(heap) + 1]>>
              a == Len(h1)
              cur == ClientPreferencesOrDefault(h1, a, args.cultureInfo)
          IN  /\ origAddr' = a
              /\ origSnap' = DeepOrderForm(h1, a)
              /\ setCookies' = cookies
              /\ UNCHANGED error
              /\ IF shouldUpdateClientPreferencesData(args.cultureInfo, cur)
                 THEN LET b == BuildNewClientPreferences(h1, a, args.cultureInfo)
                      IN  /\ heap' = b.heap
                          /\ newCpd' = b.addr
                          /\ log' = log \o <<Ev("done", "orderFormRaw"),
                                             Ev("issue", "updateOrderFormClientPreferencesData")>>
                          /\ pc' = "awaitSync"
                          /\ UNCHANGED <<cookiesSet, ofResult>>
                 ELSE /\ heap' = h1
                      /\ log' = Append(log, Ev("done", "orderFormRaw"))
                      /\ FinishOrderForm(cookies, a)
                      /\ UNCHANGED newCpd
     ELSE /\ log' = Append(log, Ev("fail", "orderFormRaw"))
          /\ pc' = "failed"
          /\ error' = "orderFormRaw"
          /\ UNCHANGED <<heap, orderFormVars>>
  /\ UNCHANGED <<resolver, args>>
  /\ UNCHANGED <<addItemVars, slaVars>>

\* The update call of syncWithStoreLocale settles: a fresh order form arrives,
\* or the failure is caught.
SettleSync(ok) ==
  /\ resolver = "orderForm"
  /\ pc = "awaitSync"
  /\ LET h1 == IF ok
               THEN heap \o <<[type |-> "clientPreferencesData", f |-> heap[newCpd].f],
                              [type |-> "orderForm", cpd |-> Len(heap) + 1]>>
               ELSE heap
         r == SyncOutcome(ok, origAddr, Len(h1))
     IN  /\ heap' = h1
         /\ log' = Append(log, Ev(IF ok THEN "done" ELSE "fail",
                                  "updateOrderFormClientPreferencesData"))
         /\ IF r.threw
            THEN /\ pc' = "failed"
                 /\ error' = "updateOrderFormClientPreferencesData"
                 /\ UNCHANGED <<cookiesSet, ofResult>>
            ELSE /\ FinishOrderForm(setCookies, r.v)
                 /\ UNCHANGED error
  /\ UNCHANGED <<resolver, args, origAddr, origSnap, setCookies, newCpd>>
  /\ UNCHANGED <<addItemVars, slaVars>>

\* ------------------------------------- queries.skuPickupSLAs, skuPickupSLA
DeliveryChannels == {"pickup-in-point", "delivery"}
AddressIds == {Undef, "X", "Y"}
PickupIds == {"X", "Y", "Z"}
\* An SLA: addressId is pickupStoreInfo.address.addressId, undefined when the
\* SLA has no pickup store.
SLAs == [id : {"s1", "s2"}, deliveryChannel : DeliveryChannels, addressId : AddressIds]
LogisticsEntries ==
  {[slasIsNull |-> TRUE, slas |-> <<>>]}
    \cup {[slasIsNull |-> FALSE, slas |-> l] : l \in SeqsUpTo(SLAs, MaxSlas)}
\* A second logistics-info entry, which the queries never read.
OtherEntry ==
  [slasIsNull |-> FALSE,
   slas |-> <<[id |-> "s9", deliveryChannel |-> "pickup-in-point", addressId |-> "Z"]>>]
Simulations ==
  {[logisticsInfo |-> <<>>]}
    \cup {[logisticsInfo |-> <<e>>] : e \in LogisticsEntries}
    \cup {[logisticsInfo |-> <<e, OtherEntry>>] : e \in LogisticsEntries}

\* Either query is called and issues checkout.simulation(...).
SkuPickupQuery(which, pickupId) ==
  /\ pc = "idle"
  /\ resolver' = which
  /\ args' = [pickupId |-> pickupId]
  /\ log' = <<Ev("issue", "simulation")>>
  /\ pc' = "awaitSimulation"
  /\ UNCHANGED <<heap, error>>
  /\ UNCHANGED <<addItemVars, orderFormVars, slaVars>>

\* The simulation settles and the query filters it.
SettleSimulation(ok, sim) ==
  /\ resolver \in {"skuPickupSLAs", "skuPickupSLA"}
  /\ pc = "awaitSimulation"
  /\ IF ok
     THEN /\ simulation' = sim
          /\ log' = Append(log, Ev("done", "simulation"))
          /\ slaResult' = IF resolver = "skuPickupSLAs"
                          THEN [kind |-> "list", list |-> skuPickupSLAs(sim)]
                          ELSE [kind |-> "one", list |-> skuPickupSLA(sim, args.pickupId)]
          /\ pc' = "returned"
          /\ UNCHANGED error
     ELSE /\ log' = Append(log, Ev("fail", "simulation"))
          /\ pc' = "failed"
          /\ error' = "simulation"
          /\ UNCHANGED slaVars
  /\ UNCHANGED <<resolver, args, heap>>
  /\ UNCHANGED <<addItemVars, orderFormVars>>

\* ------------------------------------------------------------ the system
\* The lists of Set-Cookie lines an upstream answer may carry.
SetCookieLists == SeqsUpTo(SetCookieLines, MaxCookies)

\* A request arrives: addItem with its arguments.
AddItemRequest ==
  /\ pc = "idle"
  /\ \E id \in OrderFormIds, items \in ItemLists, t \in BOOLEAN : AddItem(id, items, t)

\* The upstream answers checkout.orderForm() of addItem.
OrderFormResponse ==
  /\ ofP.st = "pending"
  /\ \E ok \in BOOLEAN, md \in StoredMarketingData : SettleOrderForm(ok, md)

\* The session service answers.
SessionResponse ==
  /\ sessP.st = "pending"
  /\ \E ok \in BOOLEAN, s \in Sessions : SettleSession(ok, s)

\* A request arrives: the orderForm query.
OrderFormRequest ==
  /\ pc = "idle"
  /\ \E c \in CultureInfos, h \in Hosts : OrderFormQuery(c, h)

\* The upstream answers checkout.orderFormRaw().
OrderFormRawResponse ==
  /\ pc = "awaitRaw"
  /\ \E ok \in BOOLEAN, cpd \in StoredClientPreferences, cookies \in SetCookieLists :
       SettleOrderFormRaw(ok, cpd, cookies)

\* A request arrives: skuPickupSLAs or skuPickupSLA.
SkuPickupRequest ==
  /\ pc = "idle"
  /\ \E w \in {"skuPickupSLAs", "skuPickupSLA"}, p \in PickupIds : SkuPickupQuery(w, p)

\* The upstream answers checkout.simulation().
SimulationResponse ==
  /\ pc = "awaitSimulation"
  /\ \E ok \in BOOLEAN, sim \in Simulations : SettleSimulation(ok, sim)

Next ==
  \/ AddItemRequest
  \/ OrderFormResponse
  \/ SessionResponse
  \/ ResumeAfterFetch
  \/ \E ok \in BOOLEAN : SettleUpdateMarketingData(ok)
  \/ \E ok \in BOOLEAN : SettleAddItem(ok)
  \/ \E ok \in BOOLEAN : SettleAttach(ok)
  \/ \E ok \in BOOLEAN : SettleRefetch(ok)
  \/ OrderFormRequest
  \/ OrderFormRawResponse
  \/ \E ok \in BOOLEAN : SettleSync(ok)
  \/ SkuPickupRequest
  \/ SimulationResponse

Spec == Init /\ [][Next]_vars

\* ---------------------------------------------------------------- claims
Issued(c) == {i \in 1..Len(log) : log[i] = Ev("issue", c)}
Done(c) == {i \in 1..Len(log) : log[i] = Ev("done", c)}
Failed(c) == {i \in 1..Len(log) : log[i] \in {Ev("fail", c), Ev("throw", c)}}
WriteCalls == {"updateOrderFormMarketingData", "addItem", "addAssemblyOptions"}

\* N of the claims: the items of the request that carry a non-empty options list.
ItemsWithOptions == {i \in 1..Len(args.items.list) : args.items.list[i].options = "[o1]"}

\* C1: an addItem call that returns has issued exactly one add-item call; with
\* no item carrying options it issued no attach-option call, fetched no order
\* form after the add-item call and returns the add-item response; with N >= 1
\* such items it issued N attach-option calls and one order-form fetch after
\* the add-item call, and returns that fetch's order form.  Before it returns
\* it never exceeds these counts.
C1_CallCounts ==
  resolver = "addItem" /\ pc # "threw" =>
    LET n == Cardinality(ItemsWithOptions)
        refetch == {i \in Issued("orderForm") : \E j \in Issued("addItem") : j < i}
    IN  /\ Cardinality(Issued("addItem")) <= 1
        /\ Cardinality(Issued("addAssemblyOptions")) <= n
        /\ Cardinality(refetch) <= (IF n = 0 THEN 0 ELSE 1)
        /\ pc = "returned" =>
             /\ Cardinality(Issued("addItem")) = 1
             /\ Cardinality(Issued("addAssemblyOptions")) = n
             /\ IF n = 0
                THEN /\ refetch = {}
                     /\ result.call = "addItem"
                     /\ result.at \in Issued("addItem")
                ELSE /\ Cardinality(refetch) = 1
                     /\ result.call = "orderForm"
                     /\ result.at \in refetch

C1_Witness ==
  /\ resolver = "addItem"
  /\ pc = "returned"
  /\ Cardinality(ItemsWithOptions) = 2
  /\ result.call = "orderForm"

\* C2: addItem with a null or undefined order-form id, or null or undefined
\* items, throws UserInputError and issues no upstream call; any other input,
\* the empty items list included, is not an input error.
C2_InputValidation ==
  resolver = "addItem" =>
    IF args.orderFormId \in {Null, Undef} \/ args.items.is \in {Null, Undef}
    THEN pc = "threw" /\ error = "UserInputError" /\ log = <<>>
    ELSE pc # "threw" /\ error # "UserInputError" /\ Len(log) >= 2

C2_Witness ==
  /\ resolver = "addItem"
  /\ pc = "threw"
  /\ error = "UserInputError"
  /\ args.orderFormId = "of1"
  /\ args.items.is = Undef

\* A value that is neither null nor undefined.
NonNull(v) == v \notin {Null, Undef}
\* Two values differ; no value (null, undefined, absent) equals no value.
Differs(v, w) == (IF NonNull(v) THEN v ELSE Null) # (IF NonNull(w) THEN w ELSE Null)
StoredFields == IF mdAddr = 0 THEN EmptyObj ELSE mdSnap.f

\* C3: the marketing-data update triggers if and only if the session carries
\* a non-null UTM field and some UTM field of the session differs from the
\* stored one; identical values do not trigger it.
C3_UpdateIffNonNullAndDiffers ==
  resolver = "addItem" /\ shouldUpdate # "unset" =>
    (shouldUpdate = "yes" <=>
       /\ \E k \in UtmFields : NonNull(SessionValueFor(k, sessP.v))
       /\ \E k \in UtmFields : Differs(SessionValueFor(k, sessP.v), Get(StoredFields, k)))

\* C4: a failed session retrieval (a synchronous throw or a rejected promise)
\* is caught: the session is the empty object, no marketing-data update is
\* issued and addItem does not fail because of it.
C4_SessionFailureCaught ==
  resolver = "addItem" /\ Failed("getSession") # {} =>
    /\ sessP = [st |-> "fulfilled", v |-> EmptyObj]
    /\ error # "getSession"
    /\ Issued("updateOrderFormMarketingData") = {}

\* The upstream lines with a whitelisted name, in order.
IsWhitelistedLine(l) ==
  Len(l) >= 2 /\ l[1] \in {"CHECKOUT_COOKIE", ".ASPXAUTH"} /\ l[2] = "="
ForwardedLines == SelectSeq(setCookies, IsWhitelistedLine)

\* C5: when the locale-sync update call fails the orderForm query still
\* returns: the order form it returns is the one fetched, unchanged, and the
\* whitelisted cookies are set; another order form is returned only when the
\* update call succeeded.
C5_LocaleSyncFailureCaught ==
  resolver = "orderForm" =>
    /\ Failed("updateOrderFormClientPreferencesData") # {} =>
         /\ pc = "returned"
         /\ error = ""
         /\ ofResult = origAddr
         /\ DeepOrderForm(heap, ofResult) = origSnap
         /\ Len(cookiesSet) = Len(ForwardedLines)
    /\ pc = "returned" /\ ofResult # origAddr =>
         Done("updateOrderFormClientPreferencesData") # {}

C5_Witness ==
  /\ resolver = "orderForm"
  /\ Failed("updateOrderFormClientPreferencesData") # {}
  /\ pc = "returned"
  /\ ofResult = origAddr
  /\ Len(cookiesSet) = 2

CarriesDomain(l) == \E i \in 1..(Len(l) - 1) : l[i] = "domain=" /\ l[i + 1] # ";"

\* C6 as stated: no cookie is set for a line that is not whitelisted, and
\* every whitelisted line is set again, in order, with its domain equal to
\* the forwarded host, whether or not the upstream line had a domain.
C6_DomainAlwaysForwardedHost ==
  resolver = "orderForm" /\ pc = "returned" =>
    /\ Len(cookiesSet) = Len(ForwardedLines)
    /\ \A i \in 1..Len(cookiesSet) :
         /\ cookiesSet[i].name = <<ForwardedLines[i][1]>>
         /\ cookiesSet[i].hasDomain
         /\ cookiesSet[i].domain = <<args.host>>

\* C6 amended: no cookie is set for a line that is not whitelisted, and every
\* whitelisted line is set again, in order; a line that carries a domain
\* attribute is set with the domain equal to the forwarded host, a line
\* without one is set with no domain.
C6_DomainRewrittenWhenPresent ==
  resolver = "orderForm" /\ pc = "returned" =>
    /\ Len(cookiesSet) = Len(ForwardedLines)
    /\ \A i \in 1..Len(cookiesSet) :
         /\ cookiesSet[i].name = <<ForwardedLines[i][1]>>
         /\ cookiesSet[i].value = <<"v">>
         /\ IF CarriesDomain(ForwardedLines[i])
            THEN cookiesSet[i].hasDomain /\ cookiesSet[i].domain = <<args.host>>
            ELSE ~cookiesSet[i].hasDomain

C6_Witness ==
  /\ resolver = "orderForm"
  /\ pc = "returned"
  /\ Len(setCookies) = 2
  /\ Len(cookiesSet) = 1
  /\ CarriesDomain(ForwardedLines[1])
  /\ cookiesSet[1].domain = <<args.host>>

\* The SLAs of the first logistics-info entry, [] when there is none.
SourceSlas ==
  IF Len(simulation.logisticsInfo) = 0 \/ simulation.logisticsInfo[1].slasIsNull
  THEN <<>>
  ELSE simulation.logisticsInfo[1].slas
PickupIndexes == {i \in 1..Len(SourceSlas) : SourceSlas[i].deliveryChannel = "pickup-in-point"}
MatchIndexes == {i \in PickupIndexes : SourceSlas[i].addressId = args.pickupId}

\* C7: skuPickupSLAs returns the pickup-in-point SLAs of the first
\* logistics-info entry in their order; skuPickupSLA returns the first of
\* them whose address id is pickupId and nothing when there is none, never an
\* SLA of another delivery channel.
C7_PickupSlas ==
  /\ resolver = "skuPickupSLAs" /\ pc = "returned" =>
       /\ slaResult.kind = "list"
       /\ Len(slaResult.list) = Cardinality(PickupIndexes)
       /\ \A i \in PickupIndexes :
            slaResult.list[Cardinality({j \in PickupIndexes : j <= i})] = SourceSlas[i]
  /\ resolver = "skuPickupSLA" /\ pc = "returned" =>
       /\ slaResult.kind = "one"
       /\ IF MatchIndexes = {}
          THEN slaResult.list = <<>>
          ELSE slaResult.list =
                 <<SourceSlas[CHOOSE i \in MatchIndexes : \A j \in MatchIndexes : i <= j]>>
       /\ \A k \in 1..Len(slaResult.list) :
            slaResult.list[k].deliveryChannel = "pickup-in-point"

C7_Witness ==
  /\ resolver = "skuPickupSLA"
  /\ pc = "returned"
  /\ Len(slaResult.list) = 1
  /\ Len(SourceSlas) = 2
  /\ SourceSlas[1].deliveryChannel = "delivery"
  /\ SourceSlas[1].addressId = args.pickupId

\* C8: the fetched snapshots are never changed in place: the marketing data
\* (and its tags) fetched by addItem and the order form (and its client
\* preferences) fetched by the orderForm query stay as they arrived.
C8_SnapshotsUnchanged ==
  /\ resolver = "addItem" /\ ofP.st = "fulfilled" =>
       DeepMarketingData(heap, mdAddr) = mdSnap
  /\ resolver = "orderForm" /\ origAddr # 0 =>
       DeepOrderForm(heap, origAddr) = origSnap

C8_Witness ==
  /\ resolver = "addItem"
  /\ sent.done
  /\ mdAddr # 0
  /\ mdSnap.tagsKind = "array"
  /\ sent.body # mdSnap

\* C9: in addItem both fetches are issued before anything is awaited and are
\* complete before any write call is issued; a marketing-data update is
\* complete before add-item is issued; add-item is complete before an
\* attach-option call is issued; the order form is fetched again only after
\* every attach-option call is complete.
C9_CallOrder ==
  resolver = "addItem" /\ pc # "threw" =>
    /\ Len(log) >= 2
    /\ log[1] = Ev("issue", "orderForm")
    /\ log[2] = Ev("issue", "getSession")
    /\ \A i \in 1..Len(log) :
         /\ log[i].e = "issue" /\ log[i].c \in WriteCalls =>
              /\ \E j \in Done("orderForm") : j < i
              /\ \E j \in Done("getSession") \cup Failed("getSession") : j < i
         /\ log[i] = Ev("issue", "addItem") /\ Issued("updateOrderFormMarketingData") # {} =>
              \E j \in Done("updateOrderFormMarketingData") : j < i
         /\ log[i] = Ev("issue", "addAssemblyOptions") =>
              \E j \in Done("addItem") : j < i
         /\ i > 2 /\ log[i] = Ev("issue", "orderForm") =>
              /\ Cardinality({j \in Done("addAssemblyOptions") : j < i})
                   = Cardinality(ItemsWithOptions)
              /\ Cardinality(ItemsWithOptions) >= 1

C9_Witness ==
  /\ resolver = "addItem"
  /\ pc = "returned"
  /\ shouldUpdate = "yes"
  /\ result.call = "orderForm"
  /\ Cardinality(ItemsWithOptions) = 2

IsTruthyTag(t) == t # "" /\ t # Null /\ t # Undef

\* C10: the marketing-data payload is a new object that keeps every non-UTM
\* field stored, takes the six UTM fields from the session, has no
\* marketingTags when the stored one is absent or null and otherwise the
\* stored tags without their falsy entries, in order.
C10_PayloadMerge ==
  resolver = "addItem" /\ sent.done =>
    LET body == sent.body
        s == sessP.v
    IN  /\ DOMAIN body.f = DOMAIN StoredFields \cup UtmFields
        /\ \A k \in DOMAIN StoredFields \ UtmFields : body.f[k] = StoredFields[k]
        /\ body.f["utmCampaign"] = Path("utmParams", "campaign", s)
        /\ body.f["utmMedium"] = Path("utmParams", "medium", s)
        /\ body.f["utmSource"] = Path("utmParams", "source", s)
        /\ body.f["utmiCampaign"] = Path("utmiParams", "campaign", s)
        /\ body.f["utmiPart"] = Path("utmiParams", "part", s)
        /\ body.f["utmipage"] = Path("utmiParams", "page", s)
        /\ IF mdAddr = 0 \/ mdSnap.tagsKind \in {"absent", "null"}
           THEN body.tagsKind = "absent"
           ELSE /\ body.tagsKind = "array"
                /\ body.tags = SelectSeq(mdSnap.tags, IsTruthyTag)

C10_Witness ==
  /\ resolver = "addItem"
  /\ sent.done
  /\ mdAddr # 0
  /\ mdSnap.tagsKind = "array"
  /\ Len(sent.body.tags) < Len(mdSnap.tags)
  /\ "coupon" \in DOMAIN sent.body.f
====
